---- MODULE Spec2Model ----
(***************************************************************************)
(* Upload admission and background transfer of src/app.py:                 *)
(* handle_upload (the request handler) and process_audio_file (the         *)
(* detached worker thread), together with the two resources they share:    *)
(* the staging directory /tmp/uploads and the Cloud Storage bucket.        *)
(*                                                                         *)
(* Strings are sequences of one-character strings; the timestamp and the   *)
(* 8-hex uuid prefix are single tokens of such a sequence.                 *)
(***************************************************************************)
EXTENDS Integers, Sequences, FiniteSets, TLC

\* ------------------------------------------------------------------ bounds
\* Number of upload requests the model follows.
NumReq == 2

\* Longest file name given to allowed_file when it is called on its own.
MaxNameLen == 5

Req == 1..NumReq

\* --------------------------------------------------------- program constants
MAX_CONTENT_LENGTH == 1000 * 1024 * 1024
CHUNK == 8192
RESUMABLE_THRESHOLD == 8 * 1024 * 1024
RESUMABLE_TIMEOUT == 3600
ALLOWED_EXTENSIONS == { <<"m","4","a">>, <<"m","p","3">>, <<"w","a","v">>, <<"a","a","c">> }
UPLOAD_FOLDER == <<"/tmp/uploads", "/">>
BLOB_PREFIX == <<"audio-uploads/">>

\* ------------------------------------------------------------ sampled inputs
\* Client file names: empty, disallowed extension, two allowed ones that differ
\* only in the letter case of the extension, and an allowed one with another
\* base name.
FileNames ==
  { <<>>,
    <<"s","o","n","g",".","t","x","t">>,
    <<"c","l","i","p",".","M","4","A">>,
    <<"c","l","i","p",".","m","4","a">>,
    <<"a",".","m","p","3">> }

\* Sizes of the uploaded body in bytes: empty, over one chunk, one byte over the
\* ceiling.
FileSizes == { 0, CHUNK + 10, MAX_CONTENT_LENGTH + 1 }

\* Values of datetime.now().strftime(...) and of str(uuid.uuid4())[:8].
Timestamps == { "20250612_101500" }
UniqueIds == { "0a1b2c3d", "9e8f7a6b" }

\* File names for allowed_file called on its own: every string up to MaxNameLen
\* over letters of m4a and aac in both cases, a digit and the dot.
NameChars == { "a", "A", "c", "m", "M", "4", "." }
BoundedNames == UNION { [1..n -> NameChars] : n \in 0..MaxNameLen }

\* Texts of the exceptions the staging I/O can raise.
OpenErrors == { "[Errno 13] Permission denied" }
StreamErrors == { "[Errno 28] No space left on device" }

\* ------------------------------------------------------------ pure functions
UpperCase == <<"A","B","C","D","E","F","G","H","I","J","K","L","M",
               "N","O","P","Q","R","S","T","U","V","W","X","Y","Z">>
LowerCase == <<"a","b","c","d","e","f","g","h","i","j","k","l","m",
               "n","o","p","q","r","s","t","u","v","w","x","y","z">>

\* str.lower() on one character
LowerChar(c) ==
  IF \E i \in 1..26 : UpperCase[i] = c
  THEN LowerCase[CHOOSE i \in 1..26 : UpperCase[i] = c]
  ELSE c

\* str.lower()
Lower(s) == [i \in 1..Len(s) |-> LowerChar(s[i])]

\* '.' in filename
HasDot(s) == \E i \in 1..Len(s) : s[i] = "."

\* index of the last '.', the split point of rsplit('.', 1)
LastDot(s) == CHOOSE i \in 1..Len(s) : s[i] = "." /\ \A j \in (i+1)..Len(s) : s[j] # "."

\* filename.rsplit('.', 1)[0] and [1]
RsplitBase(s) == SubSeq(s, 1, LastDot(s) - 1)
RsplitExt(s) == SubSeq(s, LastDot(s) + 1, Len(s))

\* The extension compared as the client wrote it, without .lower().
allowed_file_NoLower(filename) ==
  HasDot(filename) /\ RsplitExt(filename) \in ALLOWED_EXTENSIONS

allowed_file(filename) ==
  HasDot(filename) /\ Lower(RsplitExt(filename)) \in ALLOWED_EXTENSIONS

\* A key of timestamp and random suffix only, without the client's file name.
UniqueFilename_NoName(timestamp, unique_id, filename) ==
  <<timestamp, "_", unique_id>>

\* A key that keeps the extension in the letter case the client sent.
UniqueFilename_KeepCase(timestamp, unique_id, filename) ==
  <<timestamp, "_", unique_id, "_">> \o RsplitBase(filename) \o <<".">>
    \o RsplitExt(filename)

\* unique_filename of handle_upload
UniqueFilename(timestamp, unique_id, filename) ==
  <<timestamp, "_", unique_id, "_">> \o RsplitBase(filename) \o <<".">>
    \o Lower(RsplitExt(filename))

\* os.path.join(UPLOAD_FOLDER, unique_filename)
FilePath(unique_filename) == UPLOAD_FOLDER \o unique_filename

\* blob_name of process_audio_file
BlobName(original_filename) == BLOB_PREFIX \o original_filename

\* The resumable mode chosen from the threshold on, not above it.
UploadMode_FromThreshold(file_size) ==
  IF file_size >= RESUMABLE_THRESHOLD THEN "resumable" ELSE "single"

\* The transfer mode process_audio_file chooses for a staged size.
UploadMode(file_size) ==
  IF file_size > RESUMABLE_THRESHOLD THEN "resumable" ELSE "single"

\* upload_from_file(file_data) is called without a timeout argument
NoTimeout == 0

\* The upload call of lines 52-57 for a staged size: upload_from_filename with
\* timeout=3600, or upload_from_file of the opened file.
UploadCall(file_size) ==
  IF UploadMode(file_size) = "resumable"
  THEN [kind |-> "resumable", timeout |-> RESUMABLE_TIMEOUT]
  ELSE [kind |-> "single", timeout |-> NoTimeout]

Min(a, b) == IF a < b THEN a ELSE b
Max(a, b) == IF a > b THEN a ELSE b

\* ------------------------------------------------------------------- state
VARIABLES
  hpc,       \* handle_upload: position of each request's handler
  req,       \* the request: audio_file field present, filename, body size
  key,       \* unique_filename of the request (<<>> before it is generated)
  rd,        \* bytes of the body read and written so far
  fd,        \* inode the handler holds open for writing (0: none)
  resp,      \* the HTTP response (status 0: none yet)
  started,   \* number of process_audio_file threads started for the request
  fs,        \* staging directory: path -> inode linked under it
  isize,     \* size in bytes of each inode (named by the request that created it)
  bucket,    \* durable storage: blob name -> size of the object
  wpc,       \* process_audio_file: position of each worker
  wsize,     \* file_size as read by the worker
  found,     \* what blob.exists() gave the worker ("none" before the call)
  nExists,   \* blob.exists() calls issued by the worker
  nPut,      \* upload calls issued by the worker
  uploaded,  \* the worker's upload call returned, the object committed
  nRemove,   \* successful os.remove calls of the worker
  overwrote, \* the worker's upload replaced an object present at the write
  mode,      \* the upload call the worker issued: its kind and its timeout argument
  arg,       \* a function called on its own: its argument
  ret        \* a function called on its own: its result (<<>> before the call)

vars == <<hpc, req, key, rd, fd, resp, started, fs, isize, bucket,
          wpc, wsize, found, nExists, nPut, uploaded, nRemove, overwrote, mode,
          arg, ret>>

hvars == <<hpc, req, key, rd, fd, resp, started>>
wvars == <<wpc, wsize, found, nExists, nPut, uploaded, nRemove, overwrote, mode>>
pvars == <<arg, ret>>

NoReq == [hasField |-> FALSE, filename |-> <<>>, size |-> 0]
NoMode == [kind |-> "none", timeout |-> NoTimeout]
NoResp == [status |-> 0, body |-> [none |-> TRUE]]

\* f"{file_size / (1024*1024):.2f}", in hundredths of a MiB
SizeMb(file_size) == (file_size * 100 + 512 * 1024) \div (1024 * 1024)

\* jsonify(...) bodies of handle_upload; an error text is a sequence of strings
MsgNoFile == [error |-> <<"No file selected">>]
MsgTooLarge ==
  [error |-> <<"File too large. Max size: ",
               ToString(MAX_CONTENT_LENGTH \div (1024 * 1024)), "MB">>]
MsgInvalidType ==
  [error |-> <<"Invalid file type. Please upload M4A, MP3, WAV, or AAC files.">>]
MsgFailed(e) == [error |-> <<"Upload failed: ">> \o e]
MsgSuccess(unique_filename, file_size) ==
  [success |-> TRUE,
   message |-> "Large file uploaded successfully! Processing started.",
   filename |-> unique_filename,
   size_mb |-> SizeMb(file_size)]

\* An object a previous run of the service may have left in the bucket.
PriorBlobs ==
  { BlobName(UniqueFilename("20250612_101500", "0a1b2c3d", <<"c","l","i","p",".","m","4","a">>)) }

\* The service after start-up: no request yet, the staging directory empty.
Quiet ==
  /\ hpc = [r \in Req |-> "idle"]
  /\ req = [r \in Req |-> NoReq]
  /\ key = [r \in Req |-> <<>>]
  /\ rd = [r \in Req |-> 0]
  /\ fd = [r \in Req |-> 0]
  /\ resp = [r \in Req |-> NoResp]
  /\ started = [r \in Req |-> 0]
  /\ fs = <<>>
  /\ isize = [r \in Req |-> 0]
  /\ \E prior \in SUBSET PriorBlobs : bucket = [b \in prior |-> 10]
  /\ wpc = [r \in Req |-> "none"]
  /\ wsize = [r \in Req |-> 0]
  /\ found = [r \in Req |-> "none"]
  /\ nExists = [r \in Req |-> 0]
  /\ nPut = [r \in Req |-> 0]
  /\ uploaded = [r \in Req |-> FALSE]
  /\ nRemove = [r \in Req |-> 0]
  /\ overwrote = [r \in Req |-> FALSE]
  /\ mode = [r \in Req |-> NoMode]

Init ==
  /\ Quiet
  /\ arg = <<>>
  /\ ret = <<>>

\* ---------------------------------------------------------- file system
\* os.path.exists(filepath)
PathExists(path) == path \in DOMAIN fs

\* the directory after os.remove(filepath)
Unlinked(path) == [p \in DOMAIN fs \ {path} |-> fs[p]]

\* the directory after open(filepath, 'wb') by request r: a new inode, or the
\* inode already linked there
Linked(path, r) == IF path \in DOMAIN fs THEN fs ELSE (path :> r) @@ fs

\* ------------------------------------------------------- handle_upload
\* str(e) of the exception open() raises: the error text and the path
OpenErrorText(e, path) == <<e, ": ">> \o path

\* The gates without the size gate of lines 90-91.
Admission_NoSizeGate(hasField, filename, file_size) ==
  IF ~hasField THEN [status |-> 400, body |-> MsgNoFile]
  ELSE IF filename = <<>> THEN [status |-> 400, body |-> MsgNoFile]
  ELSE IF ~allowed_file(filename) THEN [status |-> 400, body |-> MsgInvalidType]
  ELSE NoResp

\* The gates with the extension gate moved before the size gate.
Admission_ExtensionFirst(hasField, filename, file_size) ==
  IF ~hasField THEN [status |-> 400, body |-> MsgNoFile]
  ELSE IF filename = <<>> THEN [status |-> 400, body |-> MsgNoFile]
  ELSE IF ~allowed_file(filename) THEN [status |-> 400, body |-> MsgInvalidType]
  ELSE IF file_size > MAX_CONTENT_LENGTH THEN [status |-> 413, body |-> MsgTooLarge]
  ELSE NoResp

\* The three admission gates, in the order of the code: the response of the
\* first gate that fails, or NoResp when the request passes all of them.
Admission(hasField, filename, file_size) ==
  IF ~hasField THEN [status |-> 400, body |-> MsgNoFile]
  ELSE IF filename = <<>> THEN [status |-> 400, body |-> MsgNoFile]
  ELSE IF file_size > MAX_CONTENT_LENGTH THEN [status |-> 413, body |-> MsgTooLarge]
  ELSE IF ~allowed_file(filename) THEN [status |-> 400, body |-> MsgInvalidType]
  ELSE NoResp

\* The 413 answer of line 91 recorded without the return: the handler goes on to
\* generate the key and stage the file.
Receive_NoReturn(r) ==
  /\ hpc[r] = "idle"
  /\ \A q \in Req : q < r => hpc[q] # "idle"
  /\ \E hasField \in BOOLEAN, filename \in FileNames, file_size \in FileSizes,
        timestamp \in Timestamps, unique_id \in UniqueIds :
       /\ ~hasField => filename = <<>> /\ file_size = 0
       /\ LET gate == Admission(hasField, filename, file_size) IN
         /\ req' = [req EXCEPT ![r] = [hasField |-> hasField, filename |-> filename,
                                        size |-> file_size]]
         /\ IF gate.status = 400
            THEN /\ resp' = [resp EXCEPT ![r] = gate]
                 /\ hpc' = [hpc EXCEPT ![r] = "done"]
                 /\ key' = key
            ELSE /\ key' = [key EXCEPT ![r] = UniqueFilename(timestamp, unique_id, filename)]
                 /\ hpc' = [hpc EXCEPT ![r] = "open"]
                 /\ resp' = [resp EXCEPT ![r] = gate]
  /\ UNCHANGED <<pvars, rd, fd, started, fs, isize, bucket, wvars>>

\* Lines 76-101: read the request, apply the gates, generate the key.
\* Requests are numbered in the order they arrive.
Receive(r) ==
  /\ hpc[r] = "idle"
  /\ \A q \in Req : q < r => hpc[q] # "idle"
  /\ \E hasField \in BOOLEAN, filename \in FileNames, file_size \in FileSizes,
        timestamp \in Timestamps, unique_id \in UniqueIds :
       \* a request without the field carries no file name and no body
       /\ ~hasField => filename = <<>> /\ file_size = 0
       /\ LET gate == Admission(hasField, filename, file_size) IN
         /\ req' = [req EXCEPT ![r] = [hasField |-> hasField, filename |-> filename,
                                        size |-> file_size]]
         /\ IF gate.status # 0
            THEN /\ resp' = [resp EXCEPT ![r] = gate]
                 /\ hpc' = [hpc EXCEPT ![r] = "done"]
                 /\ key' = key
            ELSE /\ key' = [key EXCEPT ![r] = UniqueFilename(timestamp, unique_id, filename)]
                 /\ hpc' = [hpc EXCEPT ![r] = "open"]
                 /\ resp' = resp
  /\ UNCHANGED <<pvars, rd, fd, started, fs, isize, bucket, wvars>>

\* Line 128: the except clause of handle_upload, entered from the staging code.
\* Nothing is removed from the staging directory.
UploadFailed(r, e) ==
  /\ resp' = [resp EXCEPT ![r] = [status |-> 500, body |-> MsgFailed(e)]]
  /\ hpc' = [hpc EXCEPT ![r] = "done"]
  /\ fd' = [fd EXCEPT ![r] = 0]

\* Line 105: open(filepath, 'wb') creates the file or truncates the one there.
OpenFile(r) ==
  /\ hpc[r] = "open"
  /\ LET path == FilePath(key[r]) IN
     \/ /\ fs' = Linked(path, r)
        /\ isize' = [isize EXCEPT ![fs'[path]] = 0]
        /\ fd' = [fd EXCEPT ![r] = fs'[path]]
        /\ hpc' = [hpc EXCEPT ![r] = "write"]
        /\ resp' = resp
     \/ /\ \E e \in OpenErrors : UploadFailed(r, OpenErrorText(e, path))
        /\ UNCHANGED <<fs, isize>>
  /\ UNCHANGED <<pvars, req, key, rd, started, bucket, wvars>>

\* Lines 107-110, a non-empty chunk: read up to 8192 bytes and write them at the
\* handler's own offset of the open inode; either call may raise.
WriteChunk(r) ==
  /\ hpc[r] = "write"
  /\ LET n == Min(CHUNK, req[r].size - rd[r]) IN
     /\ n > 0
     /\ \/ /\ rd' = [rd EXCEPT ![r] = rd[r] + n]
           /\ isize' = [isize EXCEPT ![fd[r]] = Max(isize[fd[r]], rd[r] + n)]
           /\ UNCHANGED <<hpc, resp, fd>>
        \/ /\ \E e \in StreamErrors : UploadFailed(r, <<e>>)
           /\ UNCHANGED <<rd, isize>>
  /\ UNCHANGED <<pvars, req, key, started, fs, bucket, wvars>>

\* Lines 107-109 and the end of the with block: the read returns no bytes, the
\* loop ends and the file is closed.
CloseFile(r) ==
  /\ hpc[r] = "write"
  /\ Min(CHUNK, req[r].size - rd[r]) = 0
  /\ fd' = [fd EXCEPT ![r] = 0]
  /\ hpc' = [hpc EXCEPT ![r] = "dispatch"]
  /\ UNCHANGED <<pvars, req, key, rd, resp, started, fs, isize, bucket, wvars>>

\* The thread object built but never started.
Dispatch_NoStart(r) ==
  /\ hpc[r] = "dispatch"
  /\ hpc' = [hpc EXCEPT ![r] = "respond"]
  /\ UNCHANGED <<pvars, req, key, rd, fd, resp, started, fs, isize, bucket, wvars>>

\* The thread started from inside the write loop, before the body is drained
\* and the file closed.
Dispatch_WhileWriting(r) ==
  /\ hpc[r] \in {"write", "dispatch"}
  /\ started' = [started EXCEPT ![r] = started[r] + 1]
  /\ wpc' = [wpc EXCEPT ![r] = "getsize"]
  /\ hpc' = [hpc EXCEPT ![r] = "respond"]
  /\ UNCHANGED <<pvars, req, key, rd, fd, resp, fs, isize, bucket,
                 wsize, found, nExists, nPut, uploaded, nRemove, overwrote, mode>>

\* Line 115: threading.Thread(target=process_audio_file, ...).start()
Dispatch(r) ==
  /\ hpc[r] = "dispatch"
  /\ started' = [started EXCEPT ![r] = started[r] + 1]
  /\ wpc' = [wpc EXCEPT ![r] = "getsize"]
  /\ hpc' = [hpc EXCEPT ![r] = "respond"]
  /\ UNCHANGED <<pvars, req, key, rd, fd, resp, fs, isize, bucket,
                 wsize, found, nExists, nPut, uploaded, nRemove, overwrote, mode>>

\* The 200 response returned from above the thread start as well.
Respond_Early(r) ==
  /\ hpc[r] \in {"dispatch", "respond"}
  /\ resp' = [resp EXCEPT ![r] = [status |-> 200,
                                   body |-> MsgSuccess(key[r], req[r].size)]]
  /\ hpc' = [hpc EXCEPT ![r] = "done"]
  /\ UNCHANGED <<pvars, req, key, rd, fd, started, fs, isize, bucket, wvars>>

\* The 200 response held back until the worker thread has ended (a join).
Respond_AfterJoin(r) ==
  /\ hpc[r] = "respond"
  /\ wpc[r] \in {"DONE", "FAILED", "CRASHED"}
  /\ resp' = [resp EXCEPT ![r] = [status |-> 200,
                                   body |-> MsgSuccess(key[r], req[r].size)]]
  /\ hpc' = [hpc EXCEPT ![r] = "done"]
  /\ UNCHANGED <<pvars, req, key, rd, fd, started, fs, isize, bucket, wvars>>

\* Lines 117-122: the 200 response.
Respond(r) ==
  /\ hpc[r] = "respond"
  /\ resp' = [resp EXCEPT ![r] = [status |-> 200,
                                   body |-> MsgSuccess(key[r], req[r].size)]]
  /\ hpc' = [hpc EXCEPT ![r] = "done"]
  /\ UNCHANGED <<pvars, req, key, rd, fd, started, fs, isize, bucket, wvars>>

\* -------------------------------------------------- process_audio_file
Terminal == {"DONE", "FAILED", "CRASHED"}

\* the worker moves to position pos
Goto(r, pos) == wpc' = [wpc EXCEPT ![r] = pos]

\* The size read going straight on to the upload, without lines 44-49.
WGetSize_NoCheck(r) ==
  /\ wpc[r] = "getsize"
  /\ Goto(r, "upload")
  /\ UNCHANGED <<pvars, hvars, fs, isize, bucket, wsize, found, nExists, nPut, uploaded,
                 nRemove, overwrote, mode>>

\* Line 36: os.path.getsize(filepath); raises when the file is not there.
WGetSize(r) ==
  /\ wpc[r] = "getsize"
  /\ LET path == FilePath(key[r]) IN
     IF PathExists(path)
     THEN /\ wsize' = [wsize EXCEPT ![r] = isize[fs[path]]]
          /\ Goto(r, "check")
     ELSE /\ Goto(r, "err_exists")
          /\ wsize' = wsize
  /\ UNCHANGED <<pvars, hvars, fs, isize, bucket, found, nExists, nPut, uploaded, nRemove,
                 overwrote, mode>>

\* Line 45: blob.exists(); returns whether the object is there, or raises.
WCheckExists(r) ==
  /\ wpc[r] = "check"
  /\ nExists' = [nExists EXCEPT ![r] = nExists[r] + 1]
  /\ \/ /\ BlobName(key[r]) \in DOMAIN bucket
        /\ found' = [found EXCEPT ![r] = "present"]
        /\ Goto(r, "skip_exists")
     \/ /\ BlobName(key[r]) \notin DOMAIN bucket
        /\ found' = [found EXCEPT ![r] = "absent"]
        /\ Goto(r, "upload")
     \/ /\ found' = [found EXCEPT ![r] = "raised"]
        /\ Goto(r, "err_exists")
  /\ UNCHANGED <<pvars, hvars, fs, isize, bucket, wsize, nPut, uploaded, nRemove, overwrote,
                 mode>>

\* os.path.exists(filepath) at lines 47, 62 and 69: on to the os.remove below
\* it, or past it to the end of the path.
WPathExists(r, here, remove, end) ==
  /\ wpc[r] = here
  /\ Goto(r, IF PathExists(FilePath(key[r])) THEN remove ELSE end)
  /\ UNCHANGED <<pvars, hvars, fs, isize, bucket, wsize, found, nExists, nPut, uploaded,
                 nRemove, overwrote, mode>>

\* os.remove(filepath) at lines 48, 63 and 70: unlinks the file, or raises
\* FileNotFoundError when it is gone.
WRemove(r, here, end, raised) ==
  /\ wpc[r] = here
  /\ LET path == FilePath(key[r]) IN
     IF PathExists(path)
     THEN /\ fs' = Unlinked(path)
          /\ nRemove' = [nRemove EXCEPT ![r] = nRemove[r] + 1]
          /\ Goto(r, end)
     ELSE /\ Goto(r, raised)
          /\ UNCHANGED <<fs, nRemove>>
  /\ UNCHANGED <<pvars, hvars, isize, bucket, wsize, found, nExists, nPut, uploaded,
                 overwrote, mode>>

\* The duplicate path returning without the cleanup of lines 47-48.
WSkipExists_NoCleanup(r) == WPathExists(r, "skip_exists", "DONE", "DONE")

\* Lines 47-49: the duplicate path.
WSkipExists(r) == WPathExists(r, "skip_exists", "skip_remove", "DONE")
WSkipRemove(r) == WRemove(r, "skip_remove", "DONE", "err_exists")

\* The upload tried a second time after a first attempt that raised.
WUpload_RetryOnce(r) ==
  /\ wpc[r] = "upload"
  /\ LET path == FilePath(key[r])
         blob == BlobName(key[r]) IN
     IF ~PathExists(path)
     THEN /\ Goto(r, "err_exists")
          /\ UNCHANGED <<bucket, nPut, uploaded, overwrote, mode>>
     ELSE /\ nPut' = [nPut EXCEPT ![r] = nPut[r] + 1]
          /\ mode' = [mode EXCEPT ![r] = UploadCall(wsize[r])]
          /\ \/ /\ bucket' = (blob :> isize[fs[path]]) @@ bucket
                /\ uploaded' = [uploaded EXCEPT ![r] = TRUE]
                /\ overwrote' = [overwrote EXCEPT ![r] = blob \in DOMAIN bucket]
                /\ Goto(r, "clean_exists")
             \/ /\ Goto(r, IF nPut[r] = 0 THEN "upload" ELSE "err_exists")
                /\ UNCHANGED <<bucket, uploaded, overwrote>>
  /\ UNCHANGED <<pvars, hvars, fs, isize, wsize, found, nExists, nRemove>>

\* Lines 52-57: upload_from_filename (resumable, 1 hour timeout) or
\* upload_from_file of the opened file. The file is opened first, which raises
\* when it is gone; the upload then commits the object whole, or raises.
WUpload(r) ==
  /\ wpc[r] = "upload"
  /\ LET path == FilePath(key[r])
         blob == BlobName(key[r]) IN
     IF ~PathExists(path)
     THEN /\ Goto(r, "err_exists")
          /\ UNCHANGED <<bucket, nPut, uploaded, overwrote, mode>>
     ELSE /\ nPut' = [nPut EXCEPT ![r] = nPut[r] + 1]
          /\ mode' = [mode EXCEPT ![r] = UploadCall(wsize[r])]
          /\ \/ /\ bucket' = (blob :> isize[fs[path]]) @@ bucket
                /\ uploaded' = [uploaded EXCEPT ![r] = TRUE]
                /\ overwrote' = [overwrote EXCEPT ![r] = blob \in DOMAIN bucket]
                /\ Goto(r, "clean_exists")
             \/ /\ Goto(r, "err_exists")
                /\ UNCHANGED <<bucket, uploaded, overwrote>>
  /\ UNCHANGED <<pvars, hvars, fs, isize, wsize, found, nExists, nRemove>>

\* The success path ending without the cleanup of lines 62-63.
WCleanExists_NoCleanup(r) == WPathExists(r, "clean_exists", "DONE", "DONE")

\* Lines 62-64: cleanup after the upload.
WCleanExists(r) == WPathExists(r, "clean_exists", "clean_remove", "DONE")
WCleanRemove(r) == WRemove(r, "clean_remove", "DONE", "err_exists")

\* The except clause only logging, without the cleanup of lines 69-70.
WErrExists_NoCleanup(r) == WPathExists(r, "err_exists", "FAILED", "FAILED")

\* Lines 66-70: the except clause. An exception of its os.remove leaves the
\* function.
WErrExists(r) == WPathExists(r, "err_exists", "err_remove", "FAILED")
WErrRemove(r) == WRemove(r, "err_remove", "FAILED", "CRASHED")

\* ------------------------------------------------------------ specification
Next ==
  \E r \in Req :
    \/ Receive(r)
    \/ OpenFile(r)
    \/ WriteChunk(r)
    \/ CloseFile(r)
    \/ Dispatch(r)
    \/ Respond(r)
    \/ WGetSize(r)
    \/ WCheckExists(r)
    \/ WSkipExists(r)
    \/ WSkipRemove(r)
    \/ WUpload(r)
    \/ WCleanExists(r)
    \/ WCleanRemove(r)
    \/ WErrExists(r)
    \/ WErrRemove(r)

Spec == Init /\ [][Next]_vars

\* The request thread runs on: handle_upload, once past the thread start, goes on
\* to its return. Nothing is assumed of the worker threads or of the storage
\* calls they wait on, which may never return.
HandlerFairSpec == Spec /\ \A r \in Req : WF_vars(Respond(r))

\* allowed_file called on its own, on each of the bounded file names.
AllowedFileInit ==
  /\ Quiet
  /\ arg \in BoundedNames
  /\ ret = <<>>

CallAllowedFile ==
  /\ ret = <<>>
  /\ ret' = <<allowed_file(arg)>>
  /\ UNCHANGED <<arg, hvars, wvars, fs, isize, bucket>>

AllowedFileSpec == AllowedFileInit /\ [][CallAllowedFile]_vars

\* One step of process_audio_file.
WorkerStep(r) ==
  \/ WGetSize(r) \/ WCheckExists(r) \/ WUpload(r)
  \/ WSkipExists(r) \/ WSkipRemove(r)
  \/ WCleanExists(r) \/ WCleanRemove(r)
  \/ WErrExists(r) \/ WErrRemove(r)

\* The worker threads run on while the process lives, and every storage call
\* they make comes back, with a result or with an exception.
WorkerFairSpec == Spec /\ \A r \in Req : WF_vars(WorkerStep(r))

\* Staged sizes around the threshold of line 52.
ModeSizes ==
  { 0, 1, RESUMABLE_THRESHOLD - 1, RESUMABLE_THRESHOLD, RESUMABLE_THRESHOLD + 1,
    2 * RESUMABLE_THRESHOLD }

\* process_audio_file started on staged files of the sizes above: the state in
\* which handle_upload has staged each body under a key of its own, started the
\* thread and answered 200.
ModeInit ==
  /\ \E size \in [Req -> ModeSizes], uid \in [Req -> UniqueIds] :
       /\ \A r, q \in Req : r # q => uid[r] # uid[q]
       /\ req = [r \in Req |-> [hasField |-> TRUE,
                                 filename |-> <<"c", "l", "i", "p", ".", "m", "4", "a">>,
                                 size |-> size[r]]]
       /\ key = [r \in Req |->
                  UniqueFilename("20250612_101500", uid[r], req[r].filename)]
       /\ rd = size
       /\ isize = size
  /\ hpc = [r \in Req |-> "done"]
  /\ fd = [r \in Req |-> 0]
  /\ resp = [r \in Req |-> [status |-> 200, body |-> MsgSuccess(key[r], req[r].size)]]
  /\ started = [r \in Req |-> 1]
  /\ fs = [p \in {FilePath(key[r]) : r \in Req} |->
             CHOOSE r \in Req : FilePath(key[r]) = p]
  /\ \E prior \in SUBSET PriorBlobs : bucket = [b \in prior |-> 10]
  /\ wpc = [r \in Req |-> "getsize"]
  /\ wsize = [r \in Req |-> 0]
  /\ found = [r \in Req |-> "none"]
  /\ nExists = [r \in Req |-> 0]
  /\ nPut = [r \in Req |-> 0]
  /\ uploaded = [r \in Req |-> FALSE]
  /\ nRemove = [r \in Req |-> 0]
  /\ overwrote = [r \in Req |-> FALSE]
  /\ mode = [r \in Req |-> NoMode]
  /\ arg = <<>>
  /\ ret = <<>>

ModeNext == \E r \in Req : WorkerStep(r)

ModeSpec == ModeInit /\ [][ModeNext]_vars

\* ------------------------------------------------------------------ claims
\* the request's key, and so its staged path and its destination, is used by no
\* other request
SoleOwner(r) == \A q \in Req \ {r} : key[q] # key[r]

\* the staged file of the request is in the staging directory
Staged(r) == PathExists(FilePath(key[r]))

\* C1: on every path of the worker (duplicate, upload succeeded, exception in the
\* size read, the existence check or the upload) the staged file is not in the
\* staging directory at the step with which the worker finishes.
C1_NoOrphanAtFinish ==
  [][\A r \in Req : wpc[r] \notin Terminal /\ wpc'[r] \in Terminal
                     => FilePath(key'[r]) \notin DOMAIN fs']_vars

\* C1 witness: a worker whose upload raised has finished through the except
\* clause, which removed the staged file.
C1_Witness ==
  \E r \in Req : wpc[r] = "FAILED" /\ nPut[r] = 1 /\ nRemove[r] = 1 /\ ~Staged(r)

\* C2 as stated: every worker that has finished has deleted its staged file
\* exactly once, and no worker deletes twice.
C2_DeletedExactlyOnce ==
  \A r \in Req : nRemove[r] <= 1 /\ (wpc[r] \in Terminal => nRemove[r] = 1)

\* C2 amended: no worker deletes twice, and a worker whose staged path is used by
\* no other request has deleted the staged file exactly once when it has finished,
\* after a successful and after a failed upload alike.
C2_DeletedOnceWhenSoleOwner ==
  \A r \in Req :
    /\ nRemove[r] <= 1
    /\ wpc[r] \in Terminal /\ SoleOwner(r) => nRemove[r] = 1

\* C2 witness: two workers with paths of their own have finished, one after a
\* successful upload and one after a failed upload, each with one delete.
C2_Witness ==
  \E r, q \in Req :
    /\ SoleOwner(r) /\ wpc[r] = "DONE" /\ nPut[r] = 1 /\ nRemove[r] = 1
    /\ SoleOwner(q) /\ wpc[q] = "FAILED" /\ nPut[q] = 1 /\ found[q] = "absent"
       /\ nRemove[q] = 1

\* C3 as stated: a worker that found the destination object present issues one
\* existence query and no upload, and finishes without an error having deleted
\* the staged file.
C3_DuplicateSkipped ==
  \A r \in Req :
    found[r] = "present" =>
      /\ nExists[r] = 1 /\ nPut[r] = 0
      /\ wpc[r] \in Terminal => wpc[r] = "DONE" /\ nRemove[r] = 1 /\ ~Staged(r)

\* C3 amended: a worker that found the destination object present issues one
\* existence query and no upload; when its staged path is used by no other
\* request it finishes without an error having deleted the staged file.
C3_DuplicateSkippedWhenSoleOwner ==
  \A r \in Req :
    found[r] = "present" =>
      /\ nExists[r] = 1 /\ nPut[r] = 0
      /\ wpc[r] \in Terminal /\ SoleOwner(r)
           => wpc[r] = "DONE" /\ nRemove[r] = 1 /\ ~Staged(r)

\* C3 witness: a worker with a path of its own found the object present and has
\* finished.
C3_Witness ==
  \E r \in Req : found[r] = "present" /\ SoleOwner(r) /\ wpc[r] = "DONE"
                  /\ nRemove[r] = 1 /\ BlobName(key[r]) \in DOMAIN bucket

\* C4: no worker uploads to a key at which an object is present at the moment of
\* the write, whatever the interleaving and also when two workers have the same
\* destination key.
C4_NeverOverwritten == \A r \in Req : ~overwrote[r]

\* C5: a 200 response comes with exactly one started worker thread of the
\* request, a 400, 413 or 500 response with none, and a handler that started a
\* thread ends with the 200 response.
C5_DispatchIff200 ==
  \A r \in Req :
    /\ started[r] <= 1
    /\ resp[r].status = 200 => started[r] = 1 /\ wpc[r] # "none"
    /\ resp[r].status \in {400, 413, 500} => started[r] = 0 /\ wpc[r] = "none"
    /\ started[r] = 1 /\ hpc[r] = "done" => resp[r].status = 200

\* C5 witness: one request answered 200 with its thread started, another answered
\* 500 after a staging error with none.
C5_Witness ==
  \E r, q \in Req :
    /\ resp[r].status = 200 /\ started[r] = 1
    /\ resp[q].status = 500 /\ started[q] = 0

\* the request carries a file: the field is there and the file name is not empty
CarriesFile(r) == req[r].hasField /\ req[r].filename # <<>>

\* the request has left nothing in the staging directory and never opened a file
NothingStaged(r) ==
  /\ key[r] = <<>> /\ fd[r] = 0 /\ rd[r] = 0 /\ isize[r] = 0
  /\ \A p \in DOMAIN fs : fs[p] # r

C7_NoPartialFileLeft ==
  \A r \in Req : resp[r].status = 500 /\ SoleOwner(r) => ~Staged(r)

\* C8: all 500 responses carry the same body, whatever the error was.
C8_GenericErrorBody ==
  \A r, q \in Req :
    resp[r].status = 500 /\ resp[q].status = 500 => resp[r].body = resp[q].body

C10_ResponseBeforeWorkerEnd ==
  \A r \in Req : wpc[r] \in Terminal => resp[r].status = 200

\* C10 amended: the worker runs, and finishes, only after the handler has
\* dispatched it, the only step the handler has left then is the 200 response,
\* and a 200 response is produced only after the dispatch; the response and the
\* end of the worker come in either order.
C10_DispatchBeforeResponseAndWorker ==
  \A r \in Req :
    /\ wpc[r] # "none" => started[r] = 1 /\ hpc[r] \in {"respond", "done"}
    /\ hpc[r] = "done" /\ wpc[r] # "none" => resp[r].status = 200
    /\ resp[r].status = 200 => wpc[r] # "none"

\* C10 witness: a worker has finished while the response of its request is still
\* to be produced.
C10_Witness ==
  \E r \in Req : wpc[r] \in Terminal /\ hpc[r] = "respond" /\ resp[r].status = 0

\* C11: the handler never waits for the worker. Once the job is dispatched the
\* 200 response follows in every execution in which the request thread runs on,
\* also in those in which the worker never gets through its existence check or
\* its upload.
C11_ResponseWithoutWorker ==
  \A r \in Req : (hpc[r] = "respond") ~> (resp[r].status = 200)

\* C11 witness: the 200 response is out while the worker has not made its first
\* step.
C11_Witness ==
  \E r \in Req : resp[r].status = 200 /\ hpc[r] = "done" /\ wpc[r] = "getsize"

\* no storage call of the worker has raised
StorageReturned(r) == found[r] # "raised" /\ (nPut[r] > 0 => uploaded[r])

\* what C12 promises two accepted uploads once their workers have finished with
\* storage calls that returned: each worker ended without error on a staged file
\* and a key of its own, deleted that file itself, and the object is in the bucket
Independent(r, q) ==
  /\ key[r] # key[q]
  /\ wpc[r] \in Terminal /\ StorageReturned(r)
       => /\ wpc[r] = "DONE"
          /\ nRemove[r] = 1 /\ ~Staged(r)
          /\ BlobName(key[r]) \in DOMAIN bucket
          /\ uploaded[r] => bucket[BlobName(key[r])] = req[r].size

\* C12 as stated: any two uploads with different file names that were both
\* answered 200 are independent.
C12_DifferentNamesIndependent ==
  \A r, q \in Req :
    r # q /\ req[r].filename # req[q].filename
      /\ resp[r].status = 200 /\ resp[q].status = 200
      => Independent(r, q)

\* the two file names differ in the base name or, letter case apart, in the
\* extension
NamesApart(f, g) ==
  \/ RsplitBase(f) # RsplitBase(g)
  \/ Lower(RsplitExt(f)) # Lower(RsplitExt(g))

\* C12 amended, the outcome: two accepted uploads whose names differ in the base
\* name or, letter case apart, in the extension get different keys, and two
\* accepted uploads with different keys are independent.
C12_Outcome ==
  \A r, q \in Req :
    r # q /\ resp[r].status = 200 /\ resp[q].status = 200 =>
      /\ NamesApart(req[r].filename, req[q].filename) => key[r] # key[q]
      /\ key[r] # key[q] => Independent(r, q)

\* C12 amended: the outcome above in every reachable state, and every worker
\* that was started finishes, with its staged file gone when no other request
\* uses its path.
C12_DifferentKeysIndependent ==
  /\ []C12_Outcome
  /\ \A r \in Req :
       (wpc[r] = "getsize") ~> (wpc[r] \in Terminal /\ (SoleOwner(r) => ~Staged(r)))

\* C12 witness: two uploads with different base names, both answered 200, both
\* uploaded by their workers, both objects in the bucket and the staging
\* directory empty.
C12_Witness ==
  \E r, q \in Req :
    /\ resp[r].status = 200 /\ resp[q].status = 200
    /\ RsplitBase(req[r].filename) # RsplitBase(req[q].filename)
    /\ wpc[r] = "DONE" /\ wpc[q] = "DONE" /\ uploaded[r] /\ uploaded[q]
    /\ BlobName(key[r]) \in DOMAIN bucket /\ BlobName(key[q]) \in DOMAIN bucket
    /\ fs = <<>>

\* lower-case and upper-case form of the letters of the listed extensions
CasePairs ==
  { <<"m","M">>, <<"a","A">>, <<"p","P">>, <<"w","W">>, <<"v","V">>, <<"c","C">> }

\* s is the listed extension e written in some letter case
SomeCaseOf(s, e) ==
  /\ Len(s) = Len(e)
  /\ \A i \in 1..Len(e) : s[i] = e[i] \/ <<e[i], s[i]>> \in CasePairs

\* the name has a dot, and what follows its last dot is m4a, mp3, wav or aac in
\* some letter case
ListedExtension(f) ==
  \E k \in 1..Len(f) :
    /\ f[k] = "."
    /\ \A j \in (k+1)..Len(f) : f[j] # "."
    /\ \E e \in { <<"m","4","a">>, <<"m","p","3">>, <<"w","a","v">>, <<"a","a","c">> } :
         SomeCaseOf(SubSeq(f, k + 1, Len(f)), e)

\* C13: allowed_file returns true exactly for the names whose part after the
\* last dot is a listed extension in any letter case; false for a name without
\* a dot and for a name that ends with a dot.
C13_AllowedFile ==
  ret # <<>> =>
    /\ ret[1] = ListedExtension(arg)
    /\ (\A i \in 1..Len(arg) : arg[i] # ".") => ret[1] = FALSE
    /\ (arg # <<>> /\ arg[Len(arg)] = ".") => ret[1] = FALSE

\* C13 witness: a name with upper-case letters in a listed extension returned
\* true.
C13_Witness == arg = <<"a", ".", "M", "4", "A">> /\ ret = <<TRUE>>

\* The state machine of the worker, by positions in the code: STAGED is getsize,
\* CHECKING_EXISTENCE is check, SKIPPING is skip_*, UPLOADING is upload, CLEANUP
\* is clean_*, err_* and the os.remove of the duplicate path.
WorkerEdges ==
  { <<"none", "getsize">>, <<"getsize", "check">>,
    <<"check", "skip_exists">>, <<"check", "upload">>, <<"check", "err_exists">>,
    <<"skip_exists", "skip_remove">>, <<"skip_remove", "DONE">>,
    <<"upload", "clean_exists">>, <<"upload", "err_exists">>,
    <<"clean_exists", "clean_remove">>, <<"clean_remove", "DONE">>,
    <<"err_exists", "err_remove">>, <<"err_remove", "FAILED">> }

\* what the worker has done so far is in the order of the state machine: an
\* upload only after the existence check gave absent, a delete only after the
\* existence check was made and, on the upload path, after the upload call
OrderSoFar(r) ==
  /\ (nPut[r] > 0) => (found[r] = "absent" /\ nExists[r] = 1)
  /\ (nRemove[r] > 0) => (nExists[r] = 1)
  /\ (nRemove[r] > 0 /\ found[r] = "absent") => (nPut[r] = 1)

\* the step moves the worker along an edge of the state machine, and issues a
\* storage call only while the staged file is there and the worker has not
\* deleted it
OrderedStep(r) ==
  /\ (wpc'[r] # wpc[r]) => (<<wpc[r], wpc'[r]>> \in WorkerEdges)
  /\ (nExists'[r] # nExists[r] \/ nPut'[r] # nPut[r]) => (Staged(r) /\ nRemove[r] = 0)

\* C14 as stated: every run of every worker is in the order of the state machine.
C14_StateMachine ==
  /\ [](\A r \in Req : OrderSoFar(r))
  /\ [][\A r \in Req : OrderedStep(r)]_vars

\* C14 amended: the run of a worker whose staged path is used by no other
\* request is in the order of the state machine; in every run an upload comes
\* only after the existence check gave absent, and no worker issues a storage
\* call after it has deleted the file itself.
C14_StateMachineWhenSoleOwner ==
  /\ [](\A r \in Req : (SoleOwner(r) => OrderSoFar(r))
                        /\ ((nPut[r] > 0) => (found[r] = "absent" /\ nExists[r] = 1)))
  /\ [][\A r \in Req :
          /\ SoleOwner(r) => OrderedStep(r)
          /\ (nExists'[r] # nExists[r] \/ nPut'[r] # nPut[r]) => (nRemove[r] = 0)]_vars

\* C14 witness: a worker with a path of its own has gone through check, upload
\* and cleanup, another through check, a failed upload and the cleanup of the
\* except clause.
C14_Witness ==
  \E r, q \in Req :
    /\ SoleOwner(r) /\ wpc[r] = "DONE" /\ uploaded[r] /\ nRemove[r] = 1
    /\ SoleOwner(q) /\ wpc[q] = "FAILED" /\ found[q] = "absent" /\ nPut[q] = 1
       /\ ~uploaded[q] /\ nRemove[q] = 1

\* the state of the job of request q: its worker's position and what it has done
JobState(q) ==
  <<wpc[q], wsize[q], found[q], nExists[q], nPut[q], uploaded[q], nRemove[q],
    overwrote[q], mode[q]>>

\* C15: an exception in the existence check or the upload stays inside the
\* worker: no worker ends outside DONE and FAILED, and the step in which a job
\* fails changes neither a response nor the state of another job.
C15_ExceptionsContained ==
  /\ [](\A r \in Req : wpc[r] # "CRASHED")
  /\ [][\A r \in Req :
          (wpc[r] \notin Terminal /\ wpc'[r] \in {"FAILED", "CRASHED"}) =>
            /\ resp' = resp
            /\ \A q \in Req \ {r} : JobState(q)' = JobState(q)]_vars

\* C16: a dispatched job makes at most one existence query and at most one
\* upload attempt, whether the attempt succeeds or fails, and makes none once
\* its worker has ended.
C16_NoRetry ==
  /\ [](\A r \in Req : nExists[r] <= 1 /\ nPut[r] <= 1)
  /\ [][\A r \in Req :
          wpc[r] \in Terminal => (nExists'[r] = nExists[r] /\ nPut'[r] = nPut[r])]_vars

\* C16 witness: one job has ended after an upload attempt that raised and another
\* after one that succeeded, each with one query and one attempt.
C16_Witness ==
  \E r, q \in Req :
    /\ wpc[r] = "FAILED" /\ nExists[r] = 1 /\ nPut[r] = 1 /\ ~uploaded[r]
    /\ wpc[q] = "DONE" /\ nExists[q] = 1 /\ nPut[q] = 1 /\ uploaded[q]

\* the size of the file at the staged path of request r (when there is one)
StagedSize(r) == isize[fs[FilePath(key[r])]]

\* the worker of request r is running
Running(r) == wpc[r] \notin {"none"} \cup Terminal

\* the thread of request r exists only once the handler has read the whole
\* body, written it and closed the file
DispatchedAfterClose(r) ==
  (wpc[r] # "none") =>
    (rd[r] = req[r].size /\ fd[r] = 0 /\ hpc[r] \in {"respond", "done"})

\* what the worker of request r sees of the staged file is the whole body: the
\* file while the worker runs and the size it has read at line 36
SeesWholeFile(r) ==
  /\ (Running(r) /\ Staged(r)) => (StagedSize(r) = req[r].size)
  /\ (nExists[r] > 0) => (wsize[r] = req[r].size)

\* the step that starts the worker of request r finds the staged file there with
\* the size of the body, and the step in which it uploads stores the whole body
WholeFileStep(r) ==
  /\ (wpc[r] = "none" /\ wpc'[r] = "getsize") =>
       (Staged(r) /\ StagedSize(r) = req[r].size)
  /\ (~uploaded[r] /\ uploaded'[r]) => (bucket'[BlobName(key[r])] = req[r].size)

\* C17 as stated: the worker is dispatched only after the body is read to its
\* end, written and the file closed, and it never observes or uploads a staged
\* file that is not the whole body.
C17_StagedFileComplete ==
  /\ [](\A r \in Req : DispatchedAfterClose(r) /\ SeesWholeFile(r))
  /\ [][\A r \in Req : WholeFileStep(r)]_vars

\* C17 amended: the worker is dispatched only after the body is read to its end,
\* written and the file closed; when no other request uses the staged path, the
\* worker never observes or uploads a staged file that is not the whole body.
C17_StagedFileCompleteWhenSoleOwner ==
  /\ [](\A r \in Req : DispatchedAfterClose(r) /\ (SoleOwner(r) => SeesWholeFile(r)))
  /\ [][\A r \in Req : SoleOwner(r) => WholeFileStep(r)]_vars

\* C17 witness: a body of more than one chunk, staged on a path of its own, has
\* been read by the worker and uploaded whole.
C17_Witness ==
  \E r \in Req :
    /\ SoleOwner(r) /\ req[r].size > CHUNK /\ uploaded[r]
    /\ wsize[r] = req[r].size
    /\ BlobName(key[r]) \in DOMAIN bucket
    /\ bucket[BlobName(key[r])] = req[r].size

\* C18: the size the worker reads is the size of the staged body, and the upload
\* call is the resumable one with a timeout of 3600 seconds when that size is
\* larger than 8 MiB, and the single-shot one, without a timeout, when it is
\* 8 MiB or smaller, the empty file included; a worker that made no upload call
\* used no mode.
C18_ModeBySize ==
  \A r \in Req :
    /\ (nExists[r] > 0) => (wsize[r] = req[r].size)
    /\ (nPut[r] = 0) => (mode[r].kind = "none")
    /\ (nPut[r] > 0 /\ wsize[r] > 8 * 1024 * 1024) =>
         (mode[r].kind = "resumable" /\ mode[r].timeout = 3600)
    /\ (nPut[r] > 0 /\ wsize[r] <= 8 * 1024 * 1024) =>
         (mode[r].kind = "single" /\ mode[r].timeout = 0)

\* C18 witness: a file of exactly 8 MiB went up single-shot and a file of one
\* byte more went up in the resumable mode.
C18_Witness ==
  \E r, q \in Req :
    /\ req[r].size = 8 * 1024 * 1024 /\ uploaded[r] /\ mode[r].kind = "single"
    /\ req[q].size = 8 * 1024 * 1024 + 1 /\ uploaded[q] /\ mode[q].kind = "resumable"

\* k is <timestamp>_<8 hex>_<base>.<extension> for the client file name f: base
\* is f before its last dot, as sent, and extension is what follows that dot,
\* in lower case
KeyForm(k, f) ==
  \E i \in 1..Len(f) :
    /\ f[i] = "."
    /\ \A j \in (i+1)..Len(f) : f[j] # "."
    /\ \E ts \in Timestamps, uid \in UniqueIds,
          e \in { <<"m","4","a">>, <<"m","p","3">>, <<"w","a","v">>, <<"a","a","c">> } :
         /\ SomeCaseOf(SubSeq(f, i + 1, Len(f)), e)
         /\ k = <<ts, "_", uid, "_">> \o SubSeq(f, 1, i - 1) \o <<".">> \o e

\* the upload of request r has been answered 200
Accepted(r) == resp[r].status = 200

\* C19: for an accepted upload the 'filename' of the response is the key, of
\* the form <timestamp>_<8 hex>_<base>.<lower-cased extension> (clip.M4A gives a
\* key ending in _clip.m4a); the file the handler creates in the staging directory
\* has that name, and the object the worker writes is 'audio-uploads/' and that
\* name.
C19_OneKey ==
  /\ [](\A r \in Req : Accepted(r) =>
          /\ resp[r].body.filename = key[r]
          /\ KeyForm(resp[r].body.filename, req[r].filename)
          /\ (req[r].filename = <<"c","l","i","p",".","M","4","A">>) =>
               (SubSeq(key[r], 4, Len(key[r])) = <<"_","c","l","i","p",".","m","4","a">>)
          /\ uploaded[r] =>
               (<<"audio-uploads/">> \o resp[r].body.filename \in DOMAIN bucket))
  /\ [][\A r \in Req :
          /\ (hpc[r] = "open" /\ hpc'[r] = "write") =>
               (<<"/tmp/uploads", "/">> \o key[r] \in DOMAIN fs')
          /\ (~uploaded[r] /\ uploaded'[r]) =>
               /\ <<"audio-uploads/">> \o key[r] \in DOMAIN bucket'
               /\ \A b \in DOMAIN bucket' :
                    (b # <<"audio-uploads/">> \o key[r]) =>
                      (b \in DOMAIN bucket /\ bucket'[b] = bucket[b])
          /\ (nRemove'[r] # nRemove[r]) =>
               (DOMAIN fs' = DOMAIN fs \ {<<"/tmp/uploads", "/">> \o key[r]})]_vars

\* C19 witness: clip.M4A was accepted, answered with a key ending in _clip.m4a,
\* and its object is in the bucket under 'audio-uploads/' and that key.
C19_Witness ==
  \E r \in Req :
    /\ Accepted(r) /\ uploaded[r]
    /\ req[r].filename = <<"c","l","i","p",".","M","4","A">>
    /\ resp[r].body.filename =
         <<"20250612_101500", "_", "9e8f7a6b", "_", "c","l","i","p",".","m","4","a">>
    /\ <<"audio-uploads/", "20250612_101500", "_", "9e8f7a6b", "_",
         "c","l","i","p",".","m","4","a">> \in DOMAIN bucket

\* request r was turned away by a gate
Rejected(r) == resp[r].status \in {400, 413}

\* the state of request q and of its job
RequestState(q) ==
  <<hpc[q], req[q], key[q], rd[q], fd[q], resp[q], started[q], JobState(q)>>

\* C20: a request rejected by a gate has created no staged file, started no
\* worker and issued no existence query, upload or delete, then and ever after;
\* the step that rejects it leaves the staging directory, the bucket and every
\* other request and job as they were.
C20_RejectionChangesNothing ==
  /\ [](\A r \in Req : Rejected(r) =>
          /\ hpc[r] = "done" /\ NothingStaged(r)
          /\ started[r] = 0 /\ wpc[r] = "none"
          /\ nExists[r] = 0 /\ nPut[r] = 0 /\ nRemove[r] = 0 /\ ~uploaded[r])
  /\ [][\A r \in Req : (~Rejected(r) /\ Rejected(r)') =>
          /\ fs' = fs /\ isize' = isize /\ bucket' = bucket
          /\ \A q \in Req \ {r} : RequestState(q)' = RequestState(q)]_vars

\* C20 witness: an upload that carries a file has been rejected by the size or
\* the extension gate while the job of another request was running on its staged
\* file, after its existence query.
C20_Witness ==
  \E r, q \in Req :
    /\ Rejected(r) /\ req[r].hasField /\ req[r].filename # <<>>
    /\ Running(q) /\ Staged(q) /\ nExists[q] = 1

====
